---------------------------- MODULE Spec2Model ----------------------------
(***************************************************************************)
(* MapView (mycity/temp/arcgis/widgets/mapview.js): the browser-side view  *)
(* that binds a kernel-side widget model to an ArcGIS map.                  *)
(*                                                                         *)
(* The state is the Backbone model's attributes, the map object the view   *)
(* holds (this.map), the draw toolbar (this.toolbar), the continuations    *)
(* the view has scheduled (token generation, web map creation, layer load  *)
(* handlers, renderer timers, smart-mapping promises, basemap-change       *)
(* listeners) and the calls the view has made to its surroundings          *)
(* (IdentityManager, keyboard manager, send, touch).                       *)
(*                                                                         *)
(* A handler is an operator from a state record to a state record; the     *)
(* field err of the record is the exception that aborted the handler, so   *)
(* that statements after a throw have no effect, as in JavaScript.         *)
(*                                                                         *)
(* Strings the code inspects (trim, indexOf("{"), JSON.parse,              *)
(* JSON.stringify) are sequences of tokens.  The esriBasemaps registry     *)
(* (_gallerybasemaps) is not modelled.                                     *)
(***************************************************************************)
EXTENDS Naturals, Sequences, FiniteSets, TLC

\* Bounds of the exploration.
MaxEvents == 2          \* events after render() under Spec
MaxDrawEvents == 5      \* ... under SpecDraw
MaxLayerEvents == 4     \* ... under SpecLayers
MaxTimeEvents == 4      \* ... under SpecTime
MaxBasemapEvents == 5   \* ... under SpecBasemap
MaxSyncEvents == 4      \* ... under SpecSync
MaxRemoveEvents == 4    \* ... under SpecRemove
MaxPageEvents == 3      \* ... under SpecPage

---------------------------------------------------------------------------
(* Strings *)

Ch(c) == [k |-> c, v |-> ""]            \* one significant character
W(w) == [k |-> "w", v |-> w]            \* a run of other characters
O(r) == [k |-> "o", v |-> r]            \* the members of a JSON object

SP == Ch(" ")
LBRACE == Ch("{")
RBRACE == Ch("}")
LBRACKET == Ch("[")
RBRACKET == Ch("]")
COMMA == Ch(",")

EmptyString == << >>
Str(w) == << W(w) >>

RECURSIVE TrimLeft(_)
TrimLeft(s) == IF s # << >> /\ Head(s) = SP THEN TrimLeft(Tail(s)) ELSE s

RECURSIVE TrimRight(_)
TrimRight(s) ==
    IF s # << >> /\ s[Len(s)] = SP THEN TrimRight(SubSeq(s, 1, Len(s) - 1)) ELSE s

\* String.prototype.trim
Trim(s) == TrimRight(TrimLeft(s))

\* (x) && (x.trim() != '')
NonBlank(s) == s # EmptyString /\ Trim(s) # EmptyString

\* s.indexOf("{") > -1
HasBrace(s) == \E i \in DOMAIN s : s[i] = LBRACE

---------------------------------------------------------------------------
(* JSON *)

Undefined == "undefined"

\* The members JSON.stringify writes for an object: a member whose value is
\* undefined is left out.
Members(r) == [key \in {x \in DOMAIN r : r[x] # Undefined} |-> r[key]]

StringifyObject(r) == << LBRACE, O(Members(r)), RBRACE >>

RECURSIVE StringifyItems(_)
StringifyItems(list) ==
    IF list = << >> THEN << >>
    ELSE IF Len(list) = 1 THEN StringifyObject(list[1])
    ELSE StringifyObject(list[1]) \o << COMMA >> \o StringifyItems(Tail(list))

\* JSON.stringify of an array of objects
StringifyArray(list) == << LBRACKET >> \o StringifyItems(list) \o << RBRACKET >>

IsObjectText(s) ==
    Len(s) = 3 /\ s[1] = LBRACE /\ s[2].k = "o" /\ s[3] = RBRACE

\* The items between the brackets: object, then (comma, object)*
RECURSIVE IsItemsText(_)
IsItemsText(s) ==
    \/ s = << >>
    \/ Len(s) = 3 /\ IsObjectText(s)
    \/ /\ Len(s) > 4
       /\ IsObjectText(SubSeq(s, 1, 3))
       /\ s[4] = COMMA
       /\ SubSeq(s, 5, Len(s)) # << >>
       /\ IsItemsText(SubSeq(s, 5, Len(s)))

IsArrayText(s) ==
    /\ Len(s) >= 2
    /\ s[1] = LBRACKET
    /\ s[Len(s)] = RBRACKET
    /\ IsItemsText(SubSeq(s, 2, Len(s) - 1))

\* JSON.parse succeeds on s (the texts of the model are objects and arrays)
Parses(s) == IsObjectText(Trim(s)) \/ IsArrayText(Trim(s))

RECURSIVE ParseItems(_)
ParseItems(s) ==
    IF s = << >> THEN << >>
    ELSE IF Len(s) = 3 THEN << s[2].v >>
    ELSE << s[2].v >> \o ParseItems(SubSeq(s, 5, Len(s)))

\* JSON.parse of a text for which Parses holds: the object's members, or the
\* list of the array's objects
ParseObject(s) == Trim(s)[2].v
ParseArray(s) == ParseItems(SubSeq(Trim(s), 2, Len(Trim(s)) - 1))

\* obj.key, undefined when the object has no such member
Get(r, key) == IF key \in DOMAIN r THEN r[key] ELSE Undefined

\* obj.key != null
Has(r, key) == key \in DOMAIN r

\* the text the kernel side writes for an object (json.dumps)
KernelJson(r) == << LBRACE, O(r), RBRACE >>

---------------------------------------------------------------------------
(* Values the kernel side and the map library supply *)

NAVIGATE == Str("navigate")
CLEAR_GRAPHICS == Str("###clear_graphics")
REMOVE_LAYERS == Str("###remove_layers")
DrawShape == Str("polygon")
\* a graphic serialized by the kernel: a polygon without a symbol
GraphicJson == KernelJson([geometry |-> "kernelPolygon", type |-> "polygon"])
Modes == {NAVIGATE, CLEAR_GRAPHICS, REMOVE_LAYERS, GraphicJson, DrawShape}

TokenObject == [server |-> "server1", tokenurl |-> "tokenurl1",
                username |-> "user1", password |-> "password1"]
TokenInfos == {EmptyString, << SP >>, KernelJson(TokenObject)}
TokenResponses == {[token |-> "tokenA", expires |-> "e1", ssl |-> "false"],
                   [token |-> "tokenB", expires |-> "e2", ssl |-> "true"]}

Ids == {EmptyString, << SP >>, Str("webmap1")}

ExtentObjects == {[xmin |-> "-120", ymin |-> "30", xmax |-> "-110", ymax |-> "40"],
                  [xmin |-> "10", ymin |-> "50", xmax |-> "20", ymax |-> "60"]}
Extents == {EmptyString} \cup {KernelJson(e) : e \in ExtentObjects}
\* the extents the map reports in its extent-change events
MapExtents == {[xmin |-> "-121", ymin |-> "31", xmax |-> "-111", ymax |-> "41",
                wkid |-> "102100"],
               [xmin |-> "11", ymin |-> "51", xmax |-> "21", ymax |-> "61",
                wkid |-> "102100"]}

\* the layer descriptors the kernel writes to _addlayer
KmlDescriptor == [type |-> "KMLLayer", url |-> "http://host/kml"]
FeatureDescriptor == [type |-> "FeatureLayer", url |-> "http://host/features"]
ColorDescriptor ==
    [type |-> "Feature Layer", url |-> "https://host/census",
     renderer |-> "ClassedColorRenderer", field_name |-> "POP"]
SizeOptionsDescriptor ==
    [type |-> "FeatureLayer", url |-> "https://host/cities",
     options |-> KernelJson([renderer |-> "ClassedSizeRenderer",
                             field_name |-> "POP"])]
ImageryDescriptor == [type |-> "ImageryLayer", url |-> "https://host/imagery"]
CollectionDescriptor == [layerDefinition |-> "definition", featureSet |-> "features"]
\* an imagery layer to be shown under a LayerSwipe widget
SwipeDescriptor ==
    [type |-> "ImageryLayer", url |-> "https://host/elevation",
     options |-> KernelJson([swipelayer |-> "true"])]
\* the descriptors whose branch of layer_changed writes _js_layer_list
SyncDescriptors == {FeatureDescriptor, SizeOptionsDescriptor, ImageryDescriptor,
                    SwipeDescriptor, CollectionDescriptor}
Descriptors == {KmlDescriptor, FeatureDescriptor, ColorDescriptor,
                SizeOptionsDescriptor, ImageryDescriptor, CollectionDescriptor}
AddLayers == {EmptyString} \cup {KernelJson(d) : d \in Descriptors}

\* newlayer.url.replace("http://", "https://") on the urls above
UrlUpgrade == [u \in {"http://host/kml", "http://host/features"} |->
                  IF u = "http://host/kml" THEN "https://host/kml"
                  ELSE "https://host/features"]

Centers == {<< 10, 20 >>, << 30, 40 >>}
Zooms == {2, 3}
Basemaps == {"topo", "streets"}
Times == {EmptyString, << SP >>, Str("2015-01-01"), Str("2016-01-01")}

\* the ids the map gives the layers added to it
LayerIds == {"layer0", "layer1"}

Geometries == {"polygonA", "polygonB"}
MapPoints == {"pointA", "pointB"}

\* what a basemap layer's resourceInfo holds
ResourceInfos == {"titled", "notJson", "noDocumentInfo", "noTitle"}
BasemapLayers == [url : {"tiles1", "tiles2"}, resourceInfo : ResourceInfos]
BasemapLayerLists ==
    {<< [url |-> "tiles1", resourceInfo |-> "titled"] >>,
     << [url |-> "tiles1", resourceInfo |-> "notJson"],
        [url |-> "tiles2", resourceInfo |-> "titled"] >>,
     << [url |-> "tiles2", resourceInfo |-> "noTitle"],
        [url |-> "tiles1", resourceInfo |-> "noDocumentInfo"] >>}

---------------------------------------------------------------------------
(* State *)

VARIABLES
    model,      \* this.model: the attributes of the widget model
    https,      \* window.location.protocol === 'https:'
    pc,         \* where render()'s chain of continuations stands
    map,        \* this.map and the state of the map object
    toolbar,    \* this.toolbar: "none", "inactive" or "active"
    keyboard,   \* IPython.keyboard_manager is enabled
    idm,        \* the calls made to IdentityManager, in order
    sent,       \* the messages passed to this.send, in order
    ui,         \* the map clicks, draw-ends and DOM clicks delivered, in order
    unsynced,   \* attributes set by the view since the last touch()
    thrown,     \* the exception that ended the last handler, or "none"
    bRend,      \* the global bRend (layer_changed assigns it undeclared)
    bSRend,     \* the global bSRend
    runs,       \* how often load_map ran and how many maps were created
    budget,     \* events the exploration may still deliver
    peer        \* where a second view on the same page is: it shares
                \* IPython.keyboard_manager with this one

vars == << model, https, pc, map, toolbar, keyboard, idm, sent, ui, unsynced,
           thrown, bRend, bSRend, runs, budget, peer >>

NoMap == [exists |-> FALSE]
NoError == "none"
Unset == "unset"
NoExtent == [unset |-> TRUE]
NoTimeExtent == [unset |-> TRUE]

\* a map object as its constructor (or arcgisUtils.createMap) leaves it
NewMap(kind, args) ==
    [exists |-> TRUE, kind |-> kind, args |-> args, loaded |-> FALSE,
     wired |-> {}, navigation |-> TRUE, graphics |-> << >>, layers |-> << >>,
     timeExtent |-> NoTimeExtent, basemap |-> Unset, basemapHandles |-> 0,
     basemapLayers |-> << >>, extent |-> NoExtent, zoom |-> 0, center |-> << >>]

\* The state a handler starts from
Cur == [model |-> model, https |-> https, pc |-> pc, map |-> map,
        toolbar |-> toolbar, keyboard |-> keyboard, idm |-> idm, sent |-> sent,
        unsynced |-> unsynced, bRend |-> bRend, bSRend |-> bSRend,
        runs |-> runs, err |-> NoError]

\* The state a handler leaves
Becomes(s) ==
    /\ model' = s.model
    /\ pc' = s.pc
    /\ map' = s.map
    /\ toolbar' = s.toolbar
    /\ keyboard' = s.keyboard
    /\ idm' = s.idm
    /\ sent' = s.sent
    /\ unsynced' = s.unsynced
    /\ bRend' = s.bRend
    /\ bSRend' = s.bSRend
    /\ runs' = s.runs
    /\ thrown' = s.err
    /\ https' = https
    /\ peer' = peer

Throw(s, e) == [s EXCEPT !.err = e]

\* statement sequencing: F runs unless an exception is already propagating
Then(s, F(_)) == IF s.err # NoError THEN s ELSE F(s)

MapReady(s) == s.map.exists /\ s.map.loaded

---------------------------------------------------------------------------
(* The widget model and the channel to the kernel *)

\* this.model.set(attr, value) from the view: the attribute waits for touch()
Set(s, attr, value) ==
    IF s.model[attr] = value THEN s
    ELSE [s EXCEPT !.model[attr] = value, !.unsynced = @ \cup {attr}]

\* this.touch(): the view's changes are sent to the kernel
touch(s) == [s EXCEPT !.unsynced = {}]

\* this.send(content)
send(s, content) == [s EXCEPT !.sent = Append(@, content)]

\* new Date(text)
DateOf(text) ==
    IF Len(Trim(text)) = 1 /\ Trim(text)[1].k = "w" THEN Trim(text)[1].v
    ELSE "Invalid Date"

Reverse(seq) == [i \in 1 .. Len(seq) |-> seq[Len(seq) + 1 - i]]

\* new Extent() with xmin, xmax, ymin, ymax of ext and WKID 4326
NewExtent(ext) ==
    [xmin |-> Get(ext, "xmin"), ymin |-> Get(ext, "ymin"),
     xmax |-> Get(ext, "xmax"), ymax |-> Get(ext, "ymax"), wkid |-> "4326"]

---------------------------------------------------------------------------
(* Incoming events from the model *)

zoom_changed(s) ==
    IF ~s.map.exists THEN Throw(s, "TypeError")
    ELSE [s EXCEPT !.map.zoom = s.model.zoom]

\* Array.prototype.reverse reverses the model's own array in place
center_changed(s) ==
    IF ~s.map.exists THEN Throw(s, "TypeError")
    ELSE [s EXCEPT !.model.center = Reverse(s.model.center),
                   !.map.center = Reverse(s.model.center)]

extent_changed(s) ==
    IF ~Parses(s.model.extent) THEN Throw(s, "SyntaxError")
    ELSE IF ~s.map.exists THEN Throw(s, "TypeError")
    ELSE [s EXCEPT !.map.extent = NewExtent(ParseObject(s.model.extent))]

SetTimeExtent(s) ==
    IF ~s.map.exists THEN Throw(s, "TypeError")
    ELSE [s EXCEPT !.map.timeExtent =
                       [startTime |-> DateOf(s.model.start_time),
                        endTime |-> DateOf(s.model.end_time)]]

start_time_changed(s) ==
    IF NonBlank(s.model.start_time) THEN SetTimeExtent(s) ELSE s

end_time_changed(s) ==
    IF NonBlank(s.model.end_time) THEN SetTimeExtent(s) ELSE s

\* basemap_changed registering its listener without calling setBasemap
basemap_changed_without_set(s) ==
    IF ~s.map.exists THEN Throw(s, "TypeError")
    ELSE [s EXCEPT !.map.basemapHandles = @ + 1]

\* setBasemap, then one more listener waiting for the map's basemap-change
basemap_changed(s) ==
    IF ~s.map.exists THEN Throw(s, "TypeError")
    ELSE [s EXCEPT !.map.basemap = s.model.basemap,
                   !.map.basemapHandles = @ + 1]

\* the symbol mode_changed gives a graphic that brings none
DefaultSymbol(type) ==
    CASE type = "polyline" -> "SimpleLineSymbol"
      [] type = "polygon" -> "SimpleFillSymbol"
      [] type = "point" -> "PictureMarkerSymbol"
      [] type = "multipoint" -> "PictureMarkerSymbol"
      [] OTHER -> Undefined

GraphicOf(json) ==
    [geometry |-> Get(json, "geometry"),
     symbol |-> IF Get(json, "symbol") = Undefined
                THEN DefaultSymbol(Get(json, "type"))
                ELSE Get(json, "symbol")]

\* this.map.removeAllLayers()
RemoveAllLayers(layers) == [i \in DOMAIN layers |-> [layers[i] EXCEPT !.onMap = FALSE]]

\* mode_changed clearing the map's graphics and not the list of them
mode_changed_keeps_list(s) ==
    LET mode == s.model.mode IN
    IF mode = NAVIGATE THEN
        IF s.toolbar = "none" THEN Throw(s, "TypeError")
        ELSE [s EXCEPT !.toolbar = "inactive"]
    ELSE IF mode = CLEAR_GRAPHICS THEN
        IF ~MapReady(s) THEN Throw(s, "TypeError")
        ELSE [s EXCEPT !.map.graphics = << >>]
    ELSE IF mode = REMOVE_LAYERS THEN
        IF ~s.map.exists THEN Throw(s, "TypeError")
        ELSE [s EXCEPT !.map.layers = RemoveAllLayers(@)]
    ELSE IF HasBrace(mode) THEN
        IF ~Parses(mode) THEN Throw(s, "SyntaxError")
        ELSE IF ~MapReady(s) THEN Throw(s, "TypeError")
        ELSE [s EXCEPT !.map.graphics = Append(@, GraphicOf(ParseObject(mode)))]
    ELSE
        IF s.toolbar = "none" THEN Throw(s, "TypeError")
        ELSE [s EXCEPT !.toolbar = "active"]

mode_changed(s) ==
    LET mode == s.model.mode IN
    IF mode = NAVIGATE THEN
        IF s.toolbar = "none" THEN Throw(s, "TypeError")
        ELSE [s EXCEPT !.toolbar = "inactive"]
    ELSE IF mode = CLEAR_GRAPHICS THEN
        IF ~MapReady(s) THEN Throw(s, "TypeError")
        ELSE Set([s EXCEPT !.map.graphics = << >>],
                 "js_interactive_drawn_graphic", EmptyString)
    ELSE IF mode = REMOVE_LAYERS THEN
        IF ~s.map.exists THEN Throw(s, "TypeError")
        ELSE [s EXCEPT !.map.layers = RemoveAllLayers(@)]
    ELSE IF HasBrace(mode) THEN
        IF ~Parses(mode) THEN Throw(s, "SyntaxError")
        ELSE IF ~MapReady(s) THEN Throw(s, "TypeError")
        ELSE [s EXCEPT !.map.graphics = Append(@, GraphicOf(ParseObject(mode)))]
    ELSE
        IF s.toolbar = "none" THEN Throw(s, "TypeError")
        ELSE [s EXCEPT !.toolbar = "active"]

\* this.model.set('mode', value) from the view: Backbone runs the listeners of
\* change:mode before set returns
SetMode(s, value) ==
    IF s.model.mode = value THEN s ELSE mode_changed(Set(s, "mode", value))

---------------------------------------------------------------------------
(* Outgoing events to the model *)

mouse_clicked(s, geometry) == send(s, [event |-> "mouseclick", message |-> geometry])

\* draw_end sending its message before and after touch()
draw_end_twice(s, geometry) ==
    LET Send(x) == send(x, [event |-> "draw-end", message |-> geometry])
        s1 == SetMode(s, NAVIGATE)
        s2 == Then(Then(s1, Send), touch)
    IN  Then(s2, Send)

draw_end(s, geometry) ==
    LET s1 == SetMode(s, NAVIGATE)
        s2 == Then(s1, touch)
        Send(x) == send(x, [event |-> "draw-end", message |-> geometry])
    IN  Then(s2, Send)

extent_change(s, extent) == touch(Set(s, "jsextent", StringifyObject(extent)))

handle_click(s) == send(s, [event |-> "click", message |-> "xyz"])

---------------------------------------------------------------------------
(* Layers *)

NoOptions == "no options"
SmartRenderers == {"ClassedColorRenderer", "ClassedSizeRenderer"}

\* A layer object and what its closures in layer_changed hold:
\*   sync        the load handler that extends _js_layer_list is registered
\*   optRenderer lyr_options.renderer (NoOptions when lyr_options is undefined)
\*   pending     timers set and smart-mapping promises not yet settled
NewLayer(type, url) ==
    [id |-> Undefined, type |-> type, url |-> url, loaded |-> FALSE,
     onMap |-> FALSE, renderer |-> Undefined, sync |-> FALSE,
     optRenderer |-> NoOptions, pending |-> {}]

\* this.map.addLayer(layer): the map names a layer that has no id
AddLayer(s, layer) ==
    [s EXCEPT !.map.layers =
         Append(@, [layer EXCEPT !.id = "layer" \o ToString(Len(s.map.layers)),
                                 !.onMap = TRUE])]

\* the entry concatenated to the text of the list in place of a push
ExtendLayerListByConcatenation(s, layerDict) ==
    touch(Set(s, "js_layer_list", s.model.js_layer_list \o StringifyObject(layerDict)))

\* "Read it and extend this list": parse _js_layer_list, push, stringify, touch
ExtendLayerList(s, layerDict) ==
    LET current == s.model.js_layer_list IN
    IF current # EmptyString /\ ~Parses(current) THEN Throw(s, "SyntaxError")
    ELSE IF current # EmptyString /\ ~IsArrayText(Trim(current))
         THEN Throw(s, "TypeError")
    ELSE LET list == IF current = EmptyString THEN << >> ELSE ParseArray(current)
         IN  touch(Set(s, "js_layer_list", StringifyArray(Append(list, layerDict))))

RendererMembers(layer) ==
    IF layer.renderer = Undefined
    THEN [renderer |-> Undefined, rendererType |-> Undefined]
    ELSE [renderer |-> layer.renderer, rendererType |-> "esri.renderer." \o layer.renderer]

FeatureLayerDict(layer) ==
    [id |-> layer.id, normalization |-> Undefined, refreshInterval |-> "0",
     url |-> layer.url, renderer |-> RendererMembers(layer).renderer,
     rendererType |-> RendererMembers(layer).rendererType]

ImageryLayerDict(layer) ==
    [id |-> layer.id, bandIds |-> Undefined, mosaicRule |-> Undefined,
     url |-> layer.url, renderingRule |-> Undefined,
     renderer |-> RendererMembers(layer).renderer,
     rendererType |-> RendererMembers(layer).rendererType]

\* the renderer a layer's options ask for, set before the layer is added:
\* the layer, and the exception jsonUtils.fromJson raises for no renderer
OptionsRenderer(layer, lyr_options, isCollection) ==
    LET renderer == Get(lyr_options, "renderer")
        Ok(l) == [layer |-> l, err |-> NoError]
    IN  IF renderer = "HeatmapRenderer"
            THEN Ok([layer EXCEPT !.renderer = "HeatmapRenderer"])
        ELSE IF renderer = "ClassedSizeRenderer"
            THEN Ok([layer EXCEPT !.pending = @ \cup {"timerSize"}])
        ELSE IF renderer = "ClassedColorRenderer"
            THEN Ok([layer EXCEPT !.pending = @ \cup {"timerColor"}])
        ELSE IF isCollection THEN Ok(layer)
        ELSE IF renderer = Undefined THEN [layer |-> layer, err |-> "TypeError"]
        ELSE Ok([layer EXCEPT !.renderer = renderer])

AddFeatureLayer(s, newlayer) ==
    LET hasOptions == Has(newlayer, "options") IN
    IF hasOptions /\ ~Parses(newlayer.options) THEN Throw(s, "SyntaxError")
    ELSE
    LET lyr_options == IF hasOptions THEN ParseObject(newlayer.options) ELSE << >>
        layer0 == NewLayer("FeatureLayer", newlayer.url)
        opt == IF hasOptions THEN OptionsRenderer(layer0, lyr_options, FALSE)
               ELSE [layer |-> layer0, err |-> NoError]
        layer1 == [opt.layer EXCEPT
                      !.optRenderer = IF hasOptions THEN Get(lyr_options, "renderer")
                                      ELSE NoOptions,
                      !.renderer = IF Get(newlayer, "renderer") = "HeatmapRenderer"
                                   THEN "HeatmapRenderer" ELSE @,
                      !.sync = TRUE]
    IN  IF opt.err # NoError THEN Throw(s, opt.err)
        ELSE [AddLayer(s, layer1) EXCEPT
                 !.bRend = Get(newlayer, "renderer") = "ClassedColorRenderer",
                 !.bSRend = Get(newlayer, "renderer") = "ClassedSizeRenderer"]

AddImageryLayer(s, newlayer) ==
    LET hasOptions == Has(newlayer, "options") IN
    IF hasOptions /\ ~Parses(newlayer.options) THEN Throw(s, "SyntaxError")
    ELSE LET imgsvc_options == IF hasOptions THEN ParseObject(newlayer.options)
                               ELSE << >>
             layer == NewLayer("ArcGISImageServiceLayer", newlayer.url)
         IN  \* new LayerSwipe({map: map, ...}): no variable map is in scope
             IF Has(imgsvc_options, "swipelayer")
             THEN Throw(AddLayer(s, layer), "ReferenceError")
             ELSE AddLayer(s, [layer EXCEPT !.sync = TRUE])

AddFeatureCollection(s, newlayer) ==
    LET hasOptions == Has(newlayer, "options") IN
    IF hasOptions /\ ~Parses(newlayer.options) THEN Throw(s, "SyntaxError")
    ELSE LET lyr_options == IF hasOptions THEN ParseObject(newlayer.options) ELSE << >>
             layer0 == [NewLayer("FeatureCollection", Undefined) EXCEPT
                           !.loaded = TRUE, !.renderer = "SimpleRenderer"]
             opt == IF hasOptions THEN OptionsRenderer(layer0, lyr_options, TRUE)
                    ELSE [layer |-> layer0, err |-> NoError]
             s1 == AddLayer(s, opt.layer)
         IN  ExtendLayerList(s1, FeatureLayerDict(s1.map.layers[Len(s1.map.layers)]))

PlainLayerTypes ==
    {"KMLLayer", "ArcGISTiledMapServiceLayer", "ArcGISDynamicMapServiceLayer",
     "VectorTileLayer"}

layer_changed(s) ==
    IF ~s.map.exists THEN Throw(s, "TypeError")
    ELSE IF ~HasBrace(s.model.addlayer) THEN s
    ELSE IF ~Parses(s.model.addlayer) THEN Throw(s, "SyntaxError")
    ELSE
    LET parsed == ParseObject(s.model.addlayer) IN
    \* (protocol === 'https:') && (newlayer.url.startsWith('http:'))
    IF s.https /\ ~Has(parsed, "url") THEN Throw(s, "TypeError")
    ELSE
    LET newlayer == IF s.https /\ parsed.url \in DOMAIN UrlUpgrade
                    THEN [parsed EXCEPT !.url = UrlUpgrade[@]] ELSE parsed
        type == Get(newlayer, "type")
    IN  IF type \in PlainLayerTypes THEN AddLayer(s, NewLayer(type, newlayer.url))
        ELSE IF type \in {"FeatureLayer", "Feature Layer"}
            THEN AddFeatureLayer(s, newlayer)
        ELSE IF type = "ImageryLayer" THEN AddImageryLayer(s, newlayer)
        ELSE AddFeatureCollection(s, newlayer)

\* remove_layer taking the removed layer's timers and promises with it
remove_layer_and_cancel(s) ==
    IF ~s.map.exists THEN Throw(s, "TypeError")
    ELSE [s EXCEPT !.map.layers =
             [i \in DOMAIN @ |->
                 IF @[i].id = s.model.layerId_to_remove
                 THEN [@[i] EXCEPT !.onMap = FALSE, !.pending = {}, !.sync = FALSE]
                 ELSE @[i]]]

\* map.getLayer(id), map.removeLayer(layer); removeLayer reads the id of
\* what it is given, which is undefined when no layer has the id
remove_layer(s) ==
    IF ~s.map.exists THEN Throw(s, "TypeError")
    ELSE IF \A i \in DOMAIN s.map.layers :
                s.map.layers[i].id # s.model.layerId_to_remove
        THEN Throw(s, "TypeError")
    ELSE [s EXCEPT !.map.layers =
             [i \in DOMAIN @ |->
                 IF @[i].id = s.model.layerId_to_remove
                 THEN [@[i] EXCEPT !.onMap = FALSE] ELSE @[i]]]

SetLayer(s, i, layer) == [s EXCEPT !.map.layers[i] = layer]

\* the listeners layer_changed registered for the load event of layer i
layer_loaded(s, i) ==
    LET layer == s.map.layers[i] IN
    IF layer.type = "KMLLayer" THEN Throw(s, "ReferenceError")    \* domStyle
    ELSE IF layer.type = "FeatureLayer" /\ layer.sync THEN
        LET s1 == ExtendLayerList(s, FeatureLayerDict(layer))
            Second(x) ==
                SetLayer(x, i, [x.map.layers[i] EXCEPT !.pending =
                    @ \cup (IF x.bRend THEN {"smartColor"} ELSE {})
                      \cup (IF x.bSRend THEN {"smartSize"} ELSE {})])
        IN  Then(s1, Second)
    ELSE IF layer.type = "ArcGISImageServiceLayer" /\ layer.sync THEN
        ExtendLayerList(s, ImageryLayerDict(layer))
    ELSE s

\* the listener layer_changed registered for renderer-change of layer i
renderer_changed(s, i) ==
    LET layer == s.map.layers[i]
        current == s.model.js_layer_list
    IN  IF layer.type # "FeatureLayer" \/ ~layer.sync THEN s
        ELSE IF layer.optRenderer \notin SmartRenderers THEN s
        ELSE IF current = EmptyString THEN s
        ELSE IF ~Parses(current) THEN Throw(s, "SyntaxError")
        ELSE IF ~IsArrayText(Trim(current)) \/ ParseArray(current) = << >>
            THEN Throw(s, "TypeError")
        ELSE LET list == ParseArray(current)
                 n == Len(list)
                 old == list[n]
                 entry == [key \in DOMAIN old \cup {"renderer", "rendererType"} |->
                              IF key = "renderer" THEN layer.renderer
                              ELSE IF key = "rendererType"
                                  THEN "esri.renderer." \o layer.renderer
                              ELSE old[key]]
             IN  touch(Set(s, "js_layer_list",
                           StringifyArray([list EXCEPT ![n] = entry])))

---------------------------------------------------------------------------
(* render() and the continuations it chains *)

\* the five calls that apply the model's state to a map that has loaded
ApplyModel(s) ==
    Then(Then(Then(Then(mode_changed(s), basemap_changed), layer_changed),
              start_time_changed), end_time_changed)

\* on_load without disableMapNavigation
on_load_navigable(s) ==
    ApplyModel([s EXCEPT !.keyboard = TRUE,
                         !.map.wired = @ \cup {"mouse-drag-start", "mouse-out",
                                               "draw-end", "extent-change", "click"},
                         !.toolbar = "inactive",
                         !.pc = "ready"])

\* function on_load(evt): the listener of the map's load event
on_load(s) ==
    ApplyModel([s EXCEPT !.keyboard = TRUE,
                         !.map.navigation = FALSE,
                         !.map.wired = @ \cup {"mouse-drag-start", "mouse-out",
                                               "draw-end", "extent-change", "click"},
                         !.toolbar = "inactive",
                         !.pc = "ready"])

\* the continuation of arcgisUtils.createMap(id, that.el)
webmap_created(s) ==
    ApplyModel([s EXCEPT !.keyboard = TRUE,
                         !.map = [NewMap("webmap", [id |-> s.model.id]) EXCEPT
                                     !.loaded = TRUE,
                                     !.wired = {"draw-end", "click"}],
                         !.runs.maps = @ + 1,
                         !.toolbar = "inactive",
                         !.pc = "ready"])

\* arcgisUtils.createMap(id, that.el): the web map is being created
CreateWebMap(s) == [s EXCEPT !.pc = "creating"]

\* new Map(that.el, {basemap, extent}) with the extent parsed from _extent
MapFromExtent(s) ==
    IF ~Parses(s.model.extent) THEN Throw(s, "SyntaxError")
    ELSE [s EXCEPT
             !.map = NewMap("extent",
                            [basemap |-> s.model.basemap,
                             extent |-> NewExtent(ParseObject(s.model.extent))]),
             !.runs.maps = @ + 1,
             !.pc = "constructed"]

\* new Map(that.el, {basemap, center: center.reverse(), zoom})
MapFromCenter(s) ==
    [s EXCEPT
        !.model.center = Reverse(@),
        !.map = NewMap("center",
                       [basemap |-> s.model.basemap,
                        center |-> Reverse(s.model.center),
                        zoom |-> s.model.zoom]),
        !.runs.maps = @ + 1,
        !.pc = "constructed"]

\* load_map with the extent looked at before the id
load_map_extent_first(s) ==
    LET s1 == [s EXCEPT !.keyboard = FALSE, !.runs.load_map = @ + 1] IN
    IF HasBrace(s1.model.extent) THEN MapFromExtent(s1)
    ELSE IF NonBlank(s1.model.id) THEN CreateWebMap(s1)
    ELSE MapFromCenter(s1)

load_map(s) ==
    LET s1 == [s EXCEPT !.keyboard = FALSE, !.runs.load_map = @ + 1] IN
    IF NonBlank(s1.model.id) THEN CreateWebMap(s1)
    ELSE IF HasBrace(s1.model.extent) THEN MapFromExtent(s1)
    ELSE MapFromCenter(s1)

\* token_generated registering the password in place of the token returned
token_generated_password(s, response) ==
    LET token == ParseObject(s.model.token_info) IN
    load_map([s EXCEPT !.idm = Append(@, [call |-> "registerToken",
                                          server |-> token.server,
                                          userId |-> token.username,
                                          token |-> token.password,
                                          expires |-> response.expires,
                                          ssl |-> response.ssl])])

\* the two continuations chained on IdentityManager.generateToken
token_generated(s, response) ==
    LET token == ParseObject(s.model.token_info) IN
    load_map([s EXCEPT !.idm = Append(@, [call |-> "registerToken",
                                          server |-> token.server,
                                          userId |-> token.username,
                                          token |-> response.token,
                                          expires |-> response.expires,
                                          ssl |-> response.ssl])])

render(s) ==
    IF NonBlank(s.model.token_info) THEN
        IF ~Parses(s.model.token_info) THEN Throw(s, "SyntaxError")
        ELSE LET token == ParseObject(s.model.token_info) IN
             [s EXCEPT !.idm = @ \o << [call |-> "registerServers",
                                        server |-> token.server,
                                        tokenServiceUrl |-> token.tokenurl],
                                       [call |-> "generateToken",
                                        server |-> token.server,
                                        username |-> token.username,
                                        password |-> token.password] >>,
                       !.pc = "token"]
    ELSE load_map(s)

---------------------------------------------------------------------------
(* Listeners of the map, the toolbar and the widget element *)

onExtentChange(s, extent) == extent_change(s, extent)

\* onDrawEnd without map.graphics.add
onDrawEndWithoutGraphic(s, geometry) ==
    LET graphic == [geometry |-> geometry, symbol |-> "SimpleFillSymbol"]
        s1 == [s EXCEPT !.toolbar = "inactive"]
        s2 == draw_end(s1, geometry)
        Sync(x) ==
            LET current == x.model.js_interactive_drawn_graphic IN
            IF current # EmptyString /\ ~Parses(current) THEN Throw(x, "SyntaxError")
            ELSE IF current # EmptyString /\ ~IsArrayText(Trim(current))
                THEN Throw(x, "TypeError")
            ELSE LET list == IF current = EmptyString THEN << >>
                             ELSE ParseArray(current)
                 IN  touch(Set(x, "js_interactive_drawn_graphic",
                               StringifyArray(Append(list, graphic))))
    IN  Then(s2, Sync)

onDrawEnd(s, geometry) ==
    LET graphic == [geometry |-> geometry, symbol |-> "SimpleFillSymbol"]
        s1 == [s EXCEPT !.map.graphics = Append(@, graphic), !.toolbar = "inactive"]
        s2 == draw_end(s1, geometry)
        Sync(x) ==
            LET current == x.model.js_interactive_drawn_graphic IN
            IF current # EmptyString /\ ~Parses(current) THEN Throw(x, "SyntaxError")
            ELSE IF current # EmptyString /\ ~IsArrayText(Trim(current))
                THEN Throw(x, "TypeError")
            ELSE LET list == IF current = EmptyString THEN << >>
                             ELSE ParseArray(current)
                 IN  touch(Set(x, "js_interactive_drawn_graphic",
                               StringifyArray(Append(list, graphic))))
    IN  Then(s2, Sync)

onMouseClick(s, mapPoint) == mouse_clicked([s EXCEPT !.map.navigation = TRUE], mapPoint)

\* what the try/catch of the basemap-change listener leaves in _title
BasemapTitle(s, layer) ==
    CASE layer.resourceInfo = "titled" -> "title of " \o layer.url
      [] layer.resourceInfo = "noTitle" -> Undefined
      [] OTHER -> s.model.basemap

ReturnList(s) ==
    [i \in DOMAIN s.map.basemapLayers |->
        [url |-> s.map.basemapLayers[i].url,
         title |-> BasemapTitle(s, s.map.basemapLayers[i])]]

\* every listener basemap_changed left on the map runs once and removes itself
onBasemapChange(s) ==
    IF s.map.basemapHandles = 0 THEN s
    ELSE touch(Set([s EXCEPT !.map.basemapHandles = 0],
                   "js_basemap", StringifyArray(ReturnList(s))))

---------------------------------------------------------------------------
(* Initial state: the view is constructed, render() has not run *)

InitWith(tokens, ids, extents, protocols, events) ==
    /\ model \in [token_info : tokens, id : ids, extent : extents,
                  center : {<< 10, 20 >>}, zoom : {2}, basemap : {"topo"},
                  mode : {NAVIGATE}, addlayer : {EmptyString},
                  start_time : {EmptyString}, end_time : {EmptyString},
                  js_layer_list : {EmptyString},
                  js_interactive_drawn_graphic : {EmptyString},
                  jsextent : {EmptyString}, js_basemap : {EmptyString},
                  layerId_to_remove : {""}]
    /\ https \in protocols
    /\ pc = "new"
    /\ map = NoMap
    /\ toolbar = "none"
    /\ keyboard = TRUE
    /\ idm = << >>
    /\ sent = << >>
    /\ ui = << >>
    /\ unsynced = {}
    /\ thrown = NoError
    /\ bRend = FALSE
    /\ bSRend = FALSE
    /\ runs = [load_map |-> 0, maps |-> 0]
    /\ budget = events
    /\ peer = "new"

InitialExtents == {EmptyString, KernelJson(CHOOSE e \in ExtentObjects : TRUE)}

Init == InitWith(TokenInfos, Ids, InitialExtents, BOOLEAN, MaxEvents)

---------------------------------------------------------------------------
(* Steps *)

\* the notebook renders the view; render() ends by registering the listeners
\* of the model's change events
Render ==
    /\ pc = "new"
    /\ Becomes(LET s == render(Cur) IN
               IF s.err # NoError THEN [s EXCEPT !.pc = "render failed"] ELSE s)
    /\ UNCHANGED << ui, budget >>

TokenGenerated(response) ==
    /\ pc = "token"
    /\ Becomes(token_generated(Cur, response))
    /\ UNCHANGED << ui, budget >>

\* a rejection continuation that goes on to load the map
TokenRejectedLoads ==
    /\ pc = "token"
    /\ Becomes(load_map(Cur))
    /\ UNCHANGED << ui, budget >>

TokenRejected ==
    /\ pc = "token"
    /\ Becomes([Cur EXCEPT !.pc = "token rejected"])
    /\ UNCHANGED << ui, budget >>

WebMapCreated ==
    /\ pc = "creating"
    /\ Becomes(webmap_created(Cur))
    /\ UNCHANGED << ui, budget >>

WebMapRejected ==
    /\ pc = "creating"
    /\ Becomes([Cur EXCEPT !.pc = "create rejected"])
    /\ UNCHANGED << ui, budget >>

\* the map built by new Map(...) emits load
MapLoad ==
    /\ pc = "constructed"
    /\ Becomes(on_load([Cur EXCEPT !.map.loaded = TRUE]))
    /\ UNCHANGED << ui, budget >>

\* The kernel changes an attribute; the listener render() registered for the
\* change runs before the step ends.
Listening == pc \notin {"new", "render failed"}

KernelSets(attr, value, handler(_)) ==
    /\ Listening
    /\ budget > 0
    /\ model[attr] # value
    /\ Becomes(handler([Cur EXCEPT !.model[attr] = value]))
    /\ budget' = budget - 1
    /\ UNCHANGED ui

KernelSetsZoom == \E v \in Zooms : KernelSets("zoom", v, zoom_changed)
KernelSetsMode == \E v \in Modes : KernelSets("mode", v, mode_changed)
KernelSetsExtent == \E v \in Extents : KernelSets("extent", v, extent_changed)
KernelSetsCenter == \E v \in Centers : KernelSets("center", v, center_changed)
KernelSetsBasemap == \E v \in Basemaps : KernelSets("basemap", v, basemap_changed)
KernelSetsAddLayer == \E v \in AddLayers : KernelSets("addlayer", v, layer_changed)
KernelAddsSyncLayer ==
    \E d \in SyncDescriptors : KernelSets("addlayer", KernelJson(d), layer_changed)
KernelSetsLayerIdToRemove ==
    \E v \in LayerIds : KernelSets("layerId_to_remove", v, remove_layer)
KernelSetsStartTime == \E v \in Times : KernelSets("start_time", v, start_time_changed)
KernelSetsEndTime == \E v \in Times : KernelSets("end_time", v, end_time_changed)

\* An event of the map library or of the page, delivered to the listeners
Delivers(s) ==
    /\ budget > 0
    /\ Becomes(s)
    /\ budget' = budget - 1

\* A continuation the view scheduled itself (a timer, a promise) runs
Continues(s) ==
    /\ Becomes(s)
    /\ UNCHANGED budget

Loaded == map.exists /\ map.loaded
Layers == IF map.exists THEN map.layers ELSE << >>

MapClick(mapPoint) ==
    /\ Loaded
    /\ Delivers(IF "click" \in map.wired THEN onMouseClick(Cur, mapPoint)
                         ELSE Cur)
    /\ ui' = Append(ui, [event |-> "mouseclick", message |-> mapPoint])

DomClick ==
    /\ Listening
    /\ Delivers(handle_click(Cur))
    /\ ui' = Append(ui, [event |-> "click", message |-> "xyz"])

DrawEnd(geometry) ==
    /\ toolbar = "active"
    /\ Delivers(IF "draw-end" \in map.wired THEN onDrawEnd(Cur, geometry)
                            ELSE Cur)
    /\ ui' = Append(ui, [event |-> "draw-end", message |-> geometry])

ExtentChange(extent) ==
    /\ Loaded
    /\ map.extent # extent
    /\ LET s == [Cur EXCEPT !.map.extent = extent] IN
       Delivers(IF "extent-change" \in map.wired
                                 THEN onExtentChange(s, extent) ELSE s)
    /\ UNCHANGED ui

MouseDragStart ==
    /\ Loaded
    /\ Delivers(IF "mouse-drag-start" \in map.wired
                THEN [Cur EXCEPT !.map.navigation = TRUE] ELSE Cur)
    /\ UNCHANGED ui

MouseOut ==
    /\ Loaded
    /\ Delivers(IF "mouse-out" \in map.wired
                THEN [Cur EXCEPT !.map.navigation = FALSE] ELSE Cur)
    /\ UNCHANGED ui

\* the map has switched its basemap layers and emits basemap-change
BasemapChange(layers) ==
    /\ Loaded
    /\ Delivers(onBasemapChange([Cur EXCEPT !.map.basemapLayers = layers]))
    /\ UNCHANGED ui

\* layer i has fetched its service description and emits load
LayerLoad(i) ==
    /\ ~Layers[i].loaded
    /\ LET layer == Layers[i]
           loaded == [layer EXCEPT
                         !.loaded = TRUE,
                         !.renderer = IF @ = Undefined /\ layer.type = "FeatureLayer"
                                      THEN "SimpleRenderer" ELSE @]
       IN  Delivers(layer_loaded(SetLayer(Cur, i, loaded), i))
    /\ UNCHANGED ui

\* a 500 ms timer of layer_changed fires: createClassed...Renderer asks
\* smartMapping for a renderer
RendererTimer(i) ==
    /\ \E timer \in Layers[i].pending \cap {"timerColor", "timerSize"} :
          LET smart == IF timer = "timerColor" THEN "smartColor" ELSE "smartSize" IN
          Continues(SetLayer(Cur, i, [Layers[i] EXCEPT
                                        !.pending = (@ \ {timer}) \cup {smart}]))
    /\ UNCHANGED ui

\* a smartMapping promise resolves: layer.setRenderer(response.renderer), which
\* emits renderer-change, and layer.redraw()
SmartMappingResolved(i) ==
    /\ \E smart \in Layers[i].pending \cap {"smartColor", "smartSize"} :
          LET renderer == IF smart = "smartColor" THEN "ClassBreaksRenderer:color"
                          ELSE "ClassBreaksRenderer:size"
              s == SetLayer(Cur, i, [Layers[i] EXCEPT !.pending = @ \ {smart},
                                                      !.renderer = renderer])
          IN  Continues(renderer_changed(s, i))
    /\ UNCHANGED ui

\* the second view's load_map: IPython.keyboard_manager.disable()
PeerLoadMap ==
    /\ peer = "new"
    /\ peer' = "loading"
    /\ keyboard' = FALSE
    /\ UNCHANGED << model, https, pc, map, toolbar, idm, sent, ui, unsynced,
                    thrown, bRend, bSRend, runs, budget >>

\* the second view's map has loaded: IPython.keyboard_manager.enable()
PeerLoaded ==
    /\ peer = "loading"
    /\ peer' = "ready"
    /\ keyboard' = TRUE
    /\ UNCHANGED << model, https, pc, map, toolbar, idm, sent, ui, unsynced,
                    thrown, bRend, bSRend, runs, budget >>

Lifecycle ==
    \/ Render
    \/ \E response \in TokenResponses : TokenGenerated(response)
    \/ TokenRejected
    \/ WebMapCreated
    \/ WebMapRejected
    \/ MapLoad

Interaction ==
    \/ \E mapPoint \in MapPoints : MapClick(mapPoint)
    \/ DomClick
    \/ \E geometry \in Geometries : DrawEnd(geometry)
    \/ \E extent \in MapExtents : ExtentChange(extent)
    \/ MouseDragStart
    \/ MouseOut

LayerEvents ==
    \/ \E i \in DOMAIN Layers : LayerLoad(i)
    \/ \E i \in DOMAIN Layers : RendererTimer(i)
    \/ \E i \in DOMAIN Layers : SmartMappingResolved(i)

Next ==
    \/ Lifecycle
    \/ KernelSetsZoom
    \/ KernelSetsMode
    \/ KernelSetsExtent
    \/ KernelSetsCenter
    \/ KernelSetsBasemap
    \/ KernelSetsAddLayer
    \/ KernelSetsStartTime
    \/ KernelSetsEndTime
    \/ KernelSetsLayerIdToRemove
    \/ Interaction
    \/ \E layers \in BasemapLayerLists : BasemapChange(layers)
    \/ LayerEvents

Spec == Init /\ [][Next]_vars

---------------------------------------------------------------------------
(* Explorations of a part of the events, to a greater depth.  The view is  *)
(* rendered without a token; the map comes from a web map id or from the    *)
(* center and zoom.                                                         *)

Blank == {EmptyString}
MapIds == {EmptyString, Str("webmap1")}

LifecycleWithoutToken ==
    \/ Render
    \/ WebMapCreated
    \/ WebMapRejected
    \/ MapLoad

\* drawing, clicking and panning
InitDraw == InitWith(Blank, MapIds, Blank, {FALSE}, MaxDrawEvents)
NextDraw == LifecycleWithoutToken \/ KernelSetsMode \/ Interaction
SpecDraw == InitDraw /\ [][NextDraw]_vars

\* layers and graphics
InitLayers == InitWith(Blank, MapIds, Blank, BOOLEAN, MaxLayerEvents)
NextLayers ==
    \/ LifecycleWithoutToken
    \/ KernelSetsAddLayer
    \/ KernelSetsMode
    \/ \E geometry \in Geometries : DrawEnd(geometry)
    \/ LayerEvents
SpecLayers == InitLayers /\ [][NextLayers]_vars

\* the time range
InitTime == InitWith(Blank, MapIds, Blank, BOOLEAN, MaxTimeEvents)
NextTime ==
    \/ LifecycleWithoutToken
    \/ KernelSetsStartTime
    \/ KernelSetsEndTime
    \/ KernelSetsAddLayer
SpecTime == InitTime /\ [][NextTime]_vars

\* the basemap
InitBasemap == InitWith(Blank, MapIds, InitialExtents, {FALSE}, MaxBasemapEvents)
NextBasemap ==
    \/ LifecycleWithoutToken
    \/ KernelSetsBasemap
    \/ KernelSetsMode
    \/ \E layers \in BasemapLayerLists : BasemapChange(layers)
SpecBasemap == InitBasemap /\ [][NextBasemap]_vars

\* the layers whose load writes _js_layer_list
InitSync == InitWith(Blank, MapIds, Blank, {FALSE}, MaxSyncEvents)
NextSync ==
    \/ LifecycleWithoutToken
    \/ KernelAddsSyncLayer
    \/ LayerEvents
SpecSync == InitSync /\ [][NextSync]_vars

\* layers added, removed and loading
InitRemove == InitWith(Blank, MapIds, Blank, {FALSE}, MaxRemoveEvents)
NextRemove ==
    \/ LifecycleWithoutToken
    \/ KernelAddsSyncLayer
    \/ KernelSetsLayerIdToRemove
    \/ KernelSetsMode
    \/ LayerEvents
SpecRemove == InitRemove /\ [][NextRemove]_vars

\* two views loading on one page
InitPage == InitWith(Blank, MapIds, InitialExtents, {FALSE}, MaxPageEvents)
NextPage ==
    \/ LifecycleWithoutToken
    \/ PeerLoadMap
    \/ PeerLoaded
    \/ KernelSetsZoom
    \/ KernelSetsBasemap
SpecPage == InitPage /\ [][NextPage]_vars

---------------------------------------------------------------------------
(* Properties *)

MessageEvents == {"mouseclick", "draw-end", "click"}

\* C2: the messages sent are exactly the map clicks, draw-ends and DOM
\* clicks delivered, one message per event and in their order, each carrying
\* the event's map point or geometry; a step that is not one of these events
\* (in particular a model change) sends nothing.
C2_OneMessagePerEvent ==
    /\ sent = ui
    /\ \A i \in DOMAIN sent : sent[i].event \in MessageEvents

C2_Witness ==
    /\ Len(sent) = 1
    /\ sent[1].event = "draw-end"
    /\ budget = 0

\* what load_map is to construct from the model's attributes
ConstructionChosen ==
    IF NonBlank(model.id)
        THEN pc' = "creating" /\ ~map'.exists
    ELSE IF HasBrace(model.extent)
        THEN /\ map'.exists /\ map'.kind = "extent"
             /\ map'.args.basemap = model.basemap
             /\ \A side \in {"xmin", "ymin", "xmax", "ymax"} :
                   map'.args.extent[side] = ParseObject(model.extent)[side]
             /\ map'.args.extent.wkid = "4326"
    ELSE /\ map'.exists /\ map'.kind = "center"
         /\ map'.args.basemap = model.basemap
         /\ map'.args.center = << model.center[2], model.center[1] >>
         /\ map'.args.zoom = model.zoom

RenderSettled == pc \notin {"new", "token"}

\* C5 as claimed: once render() and its token chain have settled, load_map
\* has run exactly once and at most one map exists.
C5_Claimed == RenderSettled => runs.load_map = 1 /\ runs.maps <= 1

\* C5: a view constructs at most one map and runs load_map at most once,
\* exactly once unless a token is still being generated or its generation
\* was rejected; the run of load_map chooses by id, then _extent, then
\* center and zoom, and a web map is only ever created from a non-blank id.
C5_OneMapByPriority ==
    /\ [](/\ runs.maps <= 1
          /\ runs.load_map <= 1
          /\ (RenderSettled /\ pc # "token rejected" => runs.load_map = 1)
          /\ (pc = "token rejected" => runs.load_map = 0)
          /\ (map.exists /\ map.kind = "webmap" =>
                 NonBlank(model.id) /\ map.args.id = model.id))
    /\ [][runs'.load_map # runs.load_map => ConstructionChosen]_vars

C5_Witness ==
    /\ map.exists /\ map.kind = "extent" /\ map.loaded
    /\ model.id = << SP >>
    /\ NonBlank(model.token_info)

IdmCalls == [i \in DOMAIN idm |-> idm[i].call]

\* C6: with a non-blank _token_info, load_map has run only if generateToken
\* resolved and registerToken was called, as the last call, for the server
\* the token was generated for, and the step that resolves generateToken
\* registers the token of its response; with a blank _token_info, render()
\* itself runs load_map and IdentityManager is never called.
C6_TokenBeforeMap ==
    /\ [](/\ (~NonBlank(model.token_info) =>
                 idm = << >> /\ (pc # "new" => runs.load_map = 1))
          /\ (NonBlank(model.token_info) /\ pc \in {"new", "token", "token rejected"} =>
                 runs.load_map = 0 /\ "registerToken" \notin {idm[i].call : i \in DOMAIN idm})
          /\ (NonBlank(model.token_info) /\ runs.load_map > 0 =>
                 /\ IdmCalls = << "registerServers", "generateToken", "registerToken" >>
                 /\ idm[3].server = idm[2].server
                 /\ idm[2].server = ParseObject(model.token_info).server))
    /\ [][\A response \in TokenResponses :
             TokenGenerated(response) =>
                 /\ idm'[Len(idm')].token = response.token
                 /\ runs'.load_map = runs.load_map + 1]_vars

C6_Witness ==
    /\ pc = "ready"
    /\ Len(idm) = 3
    /\ idm[3].token = "tokenB"

\* C7: after generateToken is rejected there is never a map, a run of
\* load_map or a registered token; after createMap is rejected there is
\* never a map, a draw toolbar or a run of the model's state against a map;
\* neither state is ever left, and the rejection itself changes neither the
\* map, the model nor the calls made.
C7_RejectionsEndTheChain ==
    /\ [](pc = "token rejected" =>
             /\ ~map.exists /\ runs.maps = 0 /\ runs.load_map = 0
             /\ toolbar = "none"
             /\ "registerToken" \notin {idm[i].call : i \in DOMAIN idm})
    /\ [](pc = "create rejected" =>
             /\ ~map.exists /\ runs.maps = 0
             /\ toolbar = "none"
             /\ ~keyboard
             /\ model.js_basemap = EmptyString
             /\ model.js_layer_list = EmptyString)
    /\ [][(pc \in {"token rejected", "create rejected"}) => (pc' = pc)]_vars
    /\ [][TokenRejected \/ WebMapRejected =>
             /\ pc' \in {"token rejected", "create rejected"}
             /\ map' = map /\ runs' = runs /\ idm' = idm /\ model' = model]_vars

C7_Witness ==
    /\ pc = "create rejected"
    /\ thrown = "TypeError"
    /\ model.basemap = "streets"

JsonLists == {"js_layer_list", "js_interactive_drawn_graphic"}

\* C1: _js_layer_list and _js_interactive_drawn_graphic are each the empty
\* string or a text that parses as a JSON array, and that the view's own
\* parse and stringify reproduce.
C1_JsonListsWhenPresent ==
    \A attr \in JsonLists :
        \/ model[attr] = EmptyString
        \/ /\ Parses(model[attr])
           /\ IsArrayText(Trim(model[attr]))
           /\ StringifyArray(ParseArray(model[attr])) = model[attr]

C1_Witness ==
    /\ model.js_layer_list # EmptyString
    /\ model.js_interactive_drawn_graphic # EmptyString
    /\ Len(ParseArray(model.js_layer_list)) = 1
    /\ Len(ParseArray(model.js_interactive_drawn_graphic)) = 1

DrawnGraphic(geometry) == [geometry |-> geometry, symbol |-> "SimpleFillSymbol"]

\* C3: a draw-end of the draw toolbar adds a graphic of the drawn geometry to
\* the end of the map's graphics, leaves the toolbar deactivated and the
\* model's mode at 'navigate'.
C3_DrawEndReturnsToNavigate ==
    [][\A geometry \in Geometries :
          DrawEnd(geometry) =>
              /\ map'.graphics = Append(map.graphics, DrawnGraphic(geometry))
              /\ toolbar' = "inactive"
              /\ model'.mode = NAVIGATE
              /\ thrown' = NoError]_vars

C3_Witness ==
    /\ Loaded
    /\ Len(map.graphics) = 2
    /\ \A i \in DOMAIN map.graphics : map.graphics[i].symbol = "SimpleFillSymbol"
    /\ map.graphics[1].geometry # map.graphics[2].geometry
    /\ toolbar = "inactive"
    /\ model.mode = NAVIGATE

\* C4 as claimed: on a loaded map, by whichever construction path, every
\* extent-change sets _jsextent to the serialization of the new extent and
\* syncs it.
C4_Claimed ==
    [][\A extent \in MapExtents :
          ExtentChange(extent) =>
              /\ model'.jsextent = StringifyObject(extent)
              /\ unsynced' = {}]_vars

TimePair == [startTime |-> DateOf(model.start_time), endTime |-> DateOf(model.end_time)]

\* C8 as claimed: on a loaded map, whenever start_time and end_time are both
\* non-blank the map's time extent is the model's pair.
C8_Claimed ==
    Loaded /\ NonBlank(model.start_time) /\ NonBlank(model.end_time) =>
        map.timeExtent = TimePair

\* C9: on a loaded map the basemap last requested with setBasemap is the
\* model's _basemap, and a change of _basemap requests it of any map there is.
C9_BasemapFollowsModel ==
    /\ [](Loaded => map.basemap = model.basemap)
    /\ [][KernelSetsBasemap /\ map.exists => map'.basemap = model'.basemap]_vars

C9_Witness ==
    /\ Loaded
    /\ map.kind = "center"
    /\ map.args.basemap = "topo"
    /\ map.basemap = "streets"
    /\ model.basemap = "streets"

\* the list C10 expects for the basemap layers the map reports
ClaimedBasemapList(layers) ==
    [i \in DOMAIN layers |->
        [url |-> layers[i].url,
         title |-> IF layers[i].resourceInfo = "titled"
                   THEN "title of " \o layers[i].url
                   ELSE model.basemap]]

\* C10 as claimed: a basemap-change that finds a listener sets _js_basemap to
\* the list of {url, title} of the basemap layers, the title being _basemap
\* for a layer whose metadata does not parse or has no document title.
C10_Claimed ==
    [][\A layers \in BasemapLayerLists :
          BasemapChange(layers) /\ map.basemapHandles > 0 =>
              model'.js_basemap = StringifyArray(ClaimedBasemapList(layers))]_vars

\* the entries of _js_layer_list
LayerList ==
    IF model.js_layer_list = EmptyString THEN << >>
    ELSE ParseArray(model.js_layer_list)

LayerListIds == {LayerList[k].id : k \in DOMAIN LayerList}

\* C11 as claimed: every layer added from _addlayer that has loaded has an
\* entry with its id in _js_layer_list, whatever the type of its descriptor.
C11_Claimed ==
    \A i \in DOMAIN Layers : Layers[i].loaded => Layers[i].id \in LayerListIds

SyncedLayerTypes == {"FeatureLayer", "ArcGISImageServiceLayer"}

\* a step that appends one entry, with this id, to the list read
AppendsEntryOf(id) ==
    /\ Len(LayerList') = Len(LayerList) + 1
    /\ \A k \in DOMAIN LayerList : LayerList'[k] = LayerList[k]
    /\ LayerList'[Len(LayerList')].id = id

\* C12 as claimed: the load event of every feature or imagery layer, and every
\* add of a feature collection, appends exactly one entry to the list read,
\* leaving the earlier entries as they were; no step shortens the list.
C12_Claimed ==
    /\ [][\A i \in DOMAIN Layers :
             LayerLoad(i) /\ Layers[i].type \in SyncedLayerTypes =>
                 AppendsEntryOf(Layers[i].id)]_vars
    /\ [][KernelAddsSyncLayer /\ Len(Layers') > Len(Layers)
             /\ Layers'[Len(Layers')].type = "FeatureCollection" =>
                 AppendsEntryOf(Layers'[Len(Layers')].id)]_vars
    /\ [][Len(LayerList') >= Len(LayerList)]_vars

\* the part of C12 about the list alone: no step shortens it or changes an
\* entry other than its last
C12_ListOnlyGrows ==
    [][/\ Len(LayerList') >= Len(LayerList)
       /\ \A k \in DOMAIN LayerList : k < Len(LayerList) => LayerList'[k] = LayerList[k]]_vars

\* what is scheduled for the layers: load handlers, timers, promises
Scheduled(layers) ==
    [i \in DOMAIN layers |->
        [sync |-> layers[i].sync, loaded |-> layers[i].loaded,
         pending |-> layers[i].pending]]

Removes ==
    \/ KernelSetsLayerIdToRemove
    \/ KernelSetsMode /\ model'.mode = REMOVE_LAYERS

\* C13: a removal (by _layerId_to_remove or '###remove_layers') leaves what is
\* scheduled for every layer as it was, and the load event of a feature or
\* imagery layer that is no longer on the map still appends that layer's entry
\* to _js_layer_list.
C13_RemovalCancelsNothing ==
    /\ [][Removes => Scheduled(Layers') = Scheduled(Layers)]_vars
    /\ [][\A i \in DOMAIN Layers :
             LayerLoad(i) /\ ~Layers[i].onMap /\ Layers[i].sync =>
                 AppendsEntryOf(Layers[i].id)]_vars

C13_Witness ==
    /\ Len(Layers) = 1
    /\ ~Layers[1].onMap
    /\ Layers[1].loaded
    /\ Layers[1].renderer = "ClassBreaksRenderer:size"
    /\ model.layerId_to_remove = Layers[1].id
    /\ Len(LayerList) = 1
    /\ LayerList[1].id = Layers[1].id
    /\ LayerList[1].renderer = "ClassBreaksRenderer:size"
    /\ budget = MaxRemoveEvents - 3

\* C14 as claimed: on a loaded map the draw toolbar is active only while the
\* model's mode is a draw shape name.
C14_Claimed ==
    Loaded /\ toolbar = "active" =>
        /\ model.mode \notin {NAVIGATE, CLEAR_GRAPHICS, REMOVE_LAYERS}
        /\ ~HasBrace(model.mode)

\* the entries of _js_interactive_drawn_graphic
DrawnList ==
    IF model.js_interactive_drawn_graphic = EmptyString THEN << >>
    ELSE ParseArray(model.js_interactive_drawn_graphic)

ModeBecomes(mode) == KernelSetsMode /\ model'.mode = mode

\* C15: a draw-end appends the {geometry, symbol} of the drawn graphic to
\* _js_interactive_drawn_graphic, a change of mode to '###clear_graphics' on a
\* loaded map empties it, and no other step (a JSON graphic in mode among
\* them) changes it.
C15_DrawnGraphicsRecorded ==
    /\ [][\A geometry \in Geometries :
             DrawEnd(geometry) => DrawnList' = Append(DrawnList, DrawnGraphic(geometry))]_vars
    /\ [][ModeBecomes(CLEAR_GRAPHICS) /\ Loaded => DrawnList' = << >>]_vars
    /\ [][ModeBecomes(GraphicJson) /\ Loaded =>
             /\ Len(map'.graphics) = Len(map.graphics) + 1
             /\ DrawnList' = DrawnList]_vars
    /\ [][~(\E geometry \in Geometries : DrawEnd(geometry))
             /\ ~ModeBecomes(CLEAR_GRAPHICS) => DrawnList' = DrawnList]_vars

C15_Witness ==
    /\ Loaded
    /\ Len(map.graphics) = 2
    /\ map.graphics[1].geometry \in Geometries
    /\ map.graphics[2].geometry = "kernelPolygon"
    /\ DrawnList = << DrawnGraphic(map.graphics[1].geometry) >>

BuiltWithoutId == map.exists /\ map.kind # "webmap"

\* C16: for a map built without a web map id, the load event and every
\* mouse-out leave map navigation disabled, and on the loaded map only a
\* mouse-drag-start or a map click enables it.
C16_NavigationOnlyWhileUsed ==
    /\ [][MapLoad => ~map'.navigation]_vars
    /\ [][MouseOut /\ BuiltWithoutId => ~map'.navigation]_vars
    /\ [][Loaded /\ BuiltWithoutId /\ ~map.navigation /\ map'.navigation =>
             MouseDragStart \/ \E mapPoint \in MapPoints : MapClick(mapPoint)]_vars

C16_Witness ==
    /\ Loaded /\ BuiltWithoutId
    /\ Len(sent) = 1
    /\ sent[1].event = "mouseclick"
    /\ ~map.navigation
    /\ budget = MaxDrawEvents - 2

MapHandlerInvoked ==
    \/ KernelSetsZoom
    \/ KernelSetsCenter
    \/ KernelSetsExtent
    \/ KernelSetsBasemap
    \/ KernelSetsAddLayer
    \/ KernelSetsLayerIdToRemove
    \/ KernelSetsStartTime
    \/ KernelSetsEndTime

\* C18 as claimed: whenever a change of the model invokes zoom_changed,
\* center_changed, extent_changed, basemap_changed, layer_changed,
\* remove_layer, start_time_changed or end_time_changed, the map exists.
C18_Claimed == [][MapHandlerInvoked => map.exists]_vars

\* C19 as claimed: whenever a change of mode to 'navigate' or to a draw shape
\* invokes mode_changed, the draw toolbar has been created.
C19_Claimed ==
    [][ModeBecomes(NAVIGATE) \/ ModeBecomes(DrawShape) => toolbar # "none"]_vars

MapLoading == pc \in {"creating", "constructed"}

\* C17 as claimed: while this view's map is loading (from load_map to the
\* load event or the resolution of createMap), and while the other view's map
\* is, the keyboard manager is disabled.
C17_Claimed == MapLoading \/ peer = "loading" => ~keyboard

\* the descriptor a layer was added from, known by its url
DescriptorOf(layer) ==
    CHOOSE d \in Descriptors :
        /\ Has(d, "url")
        /\ \/ layer.url = d.url
           \/ d.url \in DOMAIN UrlUpgrade /\ layer.url = UrlUpgrade[d.url]

\* the smart-mapping calls the descriptor's renderer asks for at load
SmartMappingAsked(layer) ==
    LET renderer == Get(DescriptorOf(layer), "renderer") IN
    IF renderer = "ClassedColorRenderer" THEN {"smartColor"}
    ELSE IF renderer = "ClassedSizeRenderer" THEN {"smartSize"}
    ELSE {}

\* C20 as claimed: the smart-mapping calls started when a feature layer loads
\* are those its own descriptor's renderer asks for, whatever was added since.
C20_Claimed ==
    [][\A i \in DOMAIN Layers :
          LayerLoad(i) /\ Layers[i].type = "FeatureLayer" /\ Layers[i].sync =>
              Layers'[i].pending \ Layers[i].pending = SmartMappingAsked(Layers[i])]_vars

\* C21 as claimed: when the smart-mapping renderer of a feature layer added
\* with options renderer 'ClassedColorRenderer' or 'ClassedSizeRenderer'
\* arrives (renderer-change), the entry of _js_layer_list with that layer's id
\* takes the new renderer and every other entry stays as it was.
C21_Claimed ==
    [][\A i \in DOMAIN Layers :
          SmartMappingResolved(i) /\ Layers[i].optRenderer \in SmartRenderers =>
              /\ Len(LayerList') = Len(LayerList)
              /\ \A k \in DOMAIN LayerList :
                    IF LayerList[k].id = Layers[i].id
                    THEN Get(LayerList'[k], "renderer") = Layers'[i].renderer
                    ELSE LayerList'[k] = LayerList[k]]_vars

\* the place of the layer with this id among the layers added to the map
LayerIndex(id) == CHOOSE i \in DOMAIN Layers : Layers[i].id = id

\* C22 as claimed: the entries of _js_layer_list stand in the order in which
\* their layers were added to the map, however the load events interleave.
C22_Claimed ==
    \A j, k \in DOMAIN LayerList :
        j < k => LayerIndex(LayerList[j].id) < LayerIndex(LayerList[k].id)

\* C23 as claimed: the run of load_map in render() leaves the model's center
\* as it was, and after a change of center has been applied to the map the
\* model's center is the sequence the kernel wrote.
C23_Claimed ==
    /\ [][Render => model'.center = model.center]_vars
    /\ [][\A v \in Centers :
             KernelSets("center", v, center_changed) /\ map.exists =>
                 model'.center = v]_vars

\* C24 as claimed: at any time at most one basemap-change listener registered
\* by basemap_changed is waiting on the map.
C24_Claimed == map.exists => map.basemapHandles <= 1

\* C25 as claimed: when a handler has finished, no attribute the view has set
\* is waiting for touch().
C25_Claimed == unsynced = {}

\* the class of layer the type of a descriptor selects
ClassOf(descriptor) ==
    LET type == Get(descriptor, "type") IN
    IF type \in PlainLayerTypes THEN type
    ELSE IF type \in {"FeatureLayer", "Feature Layer"} THEN "FeatureLayer"
    ELSE IF type = "ImageryLayer" THEN "ArcGISImageServiceLayer"
    ELSE "FeatureCollection"

\* C26 as claimed: a change of _addlayer on an existing map adds exactly one
\* layer, of the class the descriptor's type selects (a feature collection for
\* a missing type), when the text contains '{', and leaves the map's layers
\* and _js_layer_list as they were when it does not.
C26_Claimed ==
    [][KernelSetsAddLayer /\ map.exists =>
          IF HasBrace(model'.addlayer)
          THEN /\ Len(Layers') = Len(Layers) + 1
               /\ \A i \in DOMAIN Layers : Layers'[i] = Layers[i]
               /\ Layers'[Len(Layers')].type = ClassOf(ParseObject(model'.addlayer))
          ELSE /\ Layers' = Layers
               /\ model'.js_layer_list = model.js_layer_list]_vars

\* C27 as claimed: a change of _extent on an existing map raises no error; a
\* text without '{' leaves the map's extent as it was, and a JSON extent sets
\* the map's extent to its xmin, ymin, xmax, ymax in WKID 4326.
C27_Claimed ==
    [][KernelSetsExtent /\ map.exists =>
          /\ thrown' = NoError
          /\ IF HasBrace(model'.extent)
             THEN map'.extent = NewExtent(ParseObject(model'.extent))
             ELSE map'.extent = map.extent]_vars

SmartMappingCalls == {"smartColor", "smartSize"}

\* C28 as claimed: a feature layer for which smartMapping has been asked for
\* a renderer, by the descriptor's renderer or by its options, has loaded.
C28_Claimed ==
    \A i \in DOMAIN Layers :
        Layers[i].pending \cap SmartMappingCalls # {} => Layers[i].loaded

=============================================================================
